---- MODULE Spec2Model ----
(***************************************************************************)
(* The call-session state machine of the voice appointment scheduler:      *)
(* src/server.js (the express handlers and the session map) and            *)
(* src/unnamed/part_000 (getClaudeResponse, the delegate's reply parser).  *)
(*                                                                         *)
(* A text is a sequence of chunks (strings); the text it stands for is the *)
(* concatenation of its chunks.  "\n" and " " are the whitespace chunks.   *)
(* A session is an object on `heap`; the map callSessions holds, per       *)
(* CallSid, the index of the object stored under it (0: no entry).  A      *)
(* suspended handler keeps the reference to its object, as the closure of  *)
(* the handler does.  createdAt has no reader and is left out.             *)
(* `stale` is a history variable: it records of each suspended handler     *)
(* what the properties of a whole turn need and no handler reads it.       *)
(* `message` and `returned` belong to SpecParse, getClaudeResponse alone.  *)
(***************************************************************************)
EXTENDS Integers, Sequences, FiniteSets, TLC

\* ------------------------------------------------------------------ bounds
\* CallSids the carrier assigns.
MaxCalls == 2
\* Respondent turns (POST /voice/gather for a known session) accepted in all.
MaxTurns == 2
\* Steps of a behaviour: requests taken up, awaits resumed, calls accepted.
MaxSteps == 8
\* Chunks of a message text given to getClaudeResponse alone.
MaxTextLen == 4
\* Session objects created under SpecRegistry, where the carrier may hand out
\* a CallSid a second time.
MaxObjs == 3

\* ------------------------------------------------------------------ values
Null == [null |-> TRUE]

\* CallSids the handlers can be asked about: the carrier assigns 1..MaxCalls
\* in order; MaxCalls + 1 is an identifier it never assigns.
CallSids == 1..(MaxCalls + 1)

CONFIRMED_MARKER == "APPOINTMENT_CONFIRMED:"
FAILED_MARKER == "APPOINTMENT_FAILED:"
Whitespace == {"\n", " "}

\* Payloads between braces, and what JSON.parse makes of them (a string of
\* the parsed object is a text).
ConfirmedJson == "{\"date\":\"Friday\",\"time\":\"3pm\",\"service\":\"haircut\",\"notes\":\"\"}"
FailedJson == "{\"reason\":\"fully booked\"}"
BadJson == "{reason: fully booked}"
Payloads == {ConfirmedJson, FailedJson, BadJson}

JsonValid(p) == p \in {ConfirmedJson, FailedJson}

JsonParse(p) ==
  IF p = ConfirmedJson
  THEN [date |-> <<"Friday">>, time |-> <<"3pm">>, service |-> <<"haircut">>,
        notes |-> <<>>]
  ELSE [reason |-> <<"fully booked">>]

\* ------------------------------------------------- src/unnamed/part_000
RECURSIVE TrimStart(_)
TrimStart(t) ==
  IF t # <<>> /\ Head(t) \in Whitespace THEN TrimStart(Tail(t)) ELSE t

RECURSIVE TrimEnd(_)
TrimEnd(t) ==
  IF t # <<>> /\ t[Len(t)] \in Whitespace
  THEN TrimEnd(SubSeq(t, 1, Len(t) - 1))
  ELSE t

\* String.prototype.trim
Trim(t) == TrimEnd(TrimStart(t))

\* Whether /MARKER\s*(\{[\s\S]*?\})/ matches with the marker at chunk i, and
\* then the chunk it captures.
PayloadAt(t, i) ==
  CHOOSE j \in (i + 1)..Len(t) :
    /\ t[j] \in Payloads
    /\ \A k \in (i + 1)..(j - 1) : t[k] \in Whitespace

MatchesAt(t, marker, i) ==
  /\ t[i] = marker
  /\ \E j \in (i + 1)..Len(t) :
       /\ t[j] \in Payloads
       /\ \A k \in (i + 1)..(j - 1) : t[k] \in Whitespace

\* fullText.match(/MARKER\s*(\{[\s\S]*?\})/): Null, or the captured group of
\* the leftmost match.
MarkerMatch(t, marker) ==
  LET at == {i \in 1..Len(t) : MatchesAt(t, marker, i)}
  IN IF at = {} THEN Null
     ELSE LET i == CHOOSE x \in at : \A y \in at : x <= y
          IN [group |-> t[PayloadAt(t, i)]]

\* fullText.replace(/\nMARKER[\s\S]*$/, '').trim()
StripMarker(t, marker) ==
  LET at == {i \in 1..(Len(t) - 1) : t[i] = "\n" /\ t[i + 1] = marker}
  IN IF at = {} THEN Trim(t)
     ELSE LET i == CHOOSE x \in at : \A y \in at : x <= y
          IN Trim(SubSeq(t, 1, i - 1))

\* try { data = JSON.parse(group); {confirmed, ...data} } catch { {confirmed, raw} }
ParseResult(confirmed, group) ==
  IF JsonValid(group)
  THEN JsonParse(group) @@ [confirmed |-> confirmed]
  ELSE [confirmed |-> confirmed, raw |-> <<group>>]

\* getClaudeResponse, from the text of the backend's message on.
GetClaudeResponse(text) ==
  LET fullText == Trim(text)
      confirmedMatch == MarkerMatch(fullText, CONFIRMED_MARKER)
      failedMatch == MarkerMatch(fullText, FAILED_MARKER)
  IN IF confirmedMatch # Null
     THEN [response |-> StripMarker(fullText, CONFIRMED_MARKER),
           isComplete |-> TRUE,
           appointmentResult |-> ParseResult(TRUE, confirmedMatch.group)]
     ELSE IF failedMatch # Null
     THEN [response |-> StripMarker(fullText, FAILED_MARKER),
           isComplete |-> TRUE,
           appointmentResult |-> ParseResult(FALSE, failedMatch.group)]
     ELSE [response |-> fullText,
           isComplete |-> FALSE,
           appointmentResult |-> Null]

\* Texts the backend answers with in the call model.
DelegateTexts ==
  { <<"Let me check the nearest slot.">>,
    <<"All set!", "\n", CONFIRMED_MARKER, " ", ConfirmedJson>>,
    <<"Thank you anyway.", "\n", FAILED_MARKER, " ", FailedJson>> }

\* ------------------------------------------------------- src/server.js
VARIABLES
  BASE_URL,      \* process.env.BASE_URL ("" when not set)
  callSessions,  \* the Map: CallSid -> index on heap of the stored session, 0 if none
  heap,          \* the session objects, in order of creation
  placing,       \* bodies of POST /api/call requests suspended in calls.create
  gathers,       \* per session object: POST /voice/gather handlers suspended
                 \* in getClaudeResponse
  stale,         \* per session object: for each suspended handler, whether it
                 \* suspended with the call in progress and no result yet, and
                 \* whether status or result have changed since
  message,       \* getClaudeResponse alone: message.content[0].text
  returned,      \* getClaudeResponse alone: what it returned (Null: not called)
  res,           \* the response the last step sent (NoResponse: it sent none)
  steps          \* the steps taken so far

vars == <<BASE_URL, callSessions, heap, placing, gathers, stale, message, returned,
         res, steps>>

TERMINAL_STATUSES == {"completed", "failed", "no-answer", "busy", "canceled"}

\* CallStatus values of the carrier's status callback.
CallStatuses ==
  {"in-progress", "completed", "failed", "busy", "no-answer", "canceled"}

\* SpeechResult of POST /voice/gather; "" when the field is absent.
SpeechResults == {"", "We have a slot on Friday."}

Body(phone, hname, cname, service, date, time) ==
  [hairdresserPhone |-> phone, hairdresserName |-> hname, customerName |-> cname,
   service |-> service, preferredDate |-> date, preferredTime |-> time]

\* Bodies of POST /api/call; "" is an absent (or empty) field.
Bodies ==
  { Body("+15550100", "", "Alex", "haircut", "Friday", ""),
    Body("", "Salon X", "Alex", "haircut", "Friday", "3pm"),
    Body("+15550100", "Salon X", "", "haircut", "", "3pm"),
    Body("+15550100", "Salon X", "Alex", "", "Friday", "") }

\* A string as a text: the empty string has no chunk.
Text(str) == IF str = "" THEN <<>> ELSE <<str>>

buildInitialGreeting(p) ==
  <<"Hello! I'm calling on behalf of ", p.customerName, " to schedule a ",
    p.service, " appointment.">>
  \o (IF p.preferredDate # "" /\ p.preferredTime # ""
      THEN <<" They were hoping to come in on ", p.preferredDate, " around ",
             p.preferredTime, ".">>
      ELSE IF p.preferredDate # ""
      THEN <<" They were hoping to come in on ", p.preferredDate, ".">>
      ELSE IF p.preferredTime # ""
      THEN <<" They were hoping to come in around ", p.preferredTime, ".">>
      ELSE <<" They are flexible on timing and are looking for the next available slot.">>)
  \o <<" Is that something you can help me with?">>

\* The object POST /api/call stores.
NewSession(sid, body) ==
  LET prefs == [customerName |-> body.customerName,
                hairdresserName |-> IF body.hairdresserName = "" THEN "the salon"
                                    ELSE body.hairdresserName,
                service |-> body.service,
                preferredDate |-> body.preferredDate,
                preferredTime |-> body.preferredTime,
                hairdresserPhone |-> body.hairdresserPhone]
      initialGreeting == buildInitialGreeting(prefs)
  IN [callSid |-> sid,
      userPreferences |-> prefs,
      initialGreeting |-> initialGreeting,
      claudeMessages |-> <<>>,
      transcript |-> <<[role |-> "assistant", content |-> initialGreeting]>>,
      status |-> "calling",
      twilioStatus |-> "queued",
      appointmentResult |-> Null]

\* ------------------------------------------------------------- TwiML
Url(path) == <<IF BASE_URL = "" THEN "undefined" ELSE BASE_URL, path>>

Say(text) == [verb |-> "Say", text |-> text]
Hangup == [verb |-> "Hangup"]
Pause == [verb |-> "Pause", length |-> 1]
Redirect(path) == [verb |-> "Redirect", url |-> Url(path)]
Gather(text) ==
  [verb |-> "Gather", input |-> "speech", action |-> Url("/voice/gather"),
   timeout |-> 10, say |-> text]

ERROR_TEXT == <<"Sorry, an error occurred. Goodbye.">>
APOLOGY ==
  <<"I apologize, I encountered a technical issue. I will have the customer reach out directly. Thank you and goodbye.">>
REPROMPT ==
  <<"I'm sorry, I didn't catch that. Are you able to help me schedule an appointment?">>
NO_RESPONSE_TEXT ==
  <<"I didn't receive a response. I'll have the customer follow up directly. Goodbye.">>

\* The documents the handlers answer with.
ErrorTwiml == <<Say(ERROR_TEXT), Hangup>>
ListenTwiml(text) == <<Gather(text), Redirect("/voice/no-input")>>
FinalTwiml(text) == <<Say(text), Pause, Hangup>>
ApologyTwiml == <<Say(APOLOGY), Hangup>>
NoInputTwiml == <<Gather(REPROMPT), Say(NO_RESPONSE_TEXT), Hangup>>

Response(handler, sid, code, body) ==
  [handler |-> handler, callSid |-> sid, code |-> code, body |-> body]

Twiml(handler, sid, doc) == Response(handler, sid, 200, [twiml |-> doc])

\* A step that ends in an await, or is the carrier's, sends no response.
NoResponse == Response("none", 0, 0, Null)

\* ------------------------------------------------------------- helpers
Objs == 1..Len(heap)

\* callSessions.get(sid): the index of the session, 0 for undefined.
Get(sid) == callSessions[sid]

Push(seq, role, content) == Append(seq, [role |-> role, content |-> content])

UserTurns(session) ==
  Cardinality({i \in 1..Len(session.claudeMessages) :
                 session.claudeMessages[i].role = "user"})

RECURSIVE TurnsUpTo(_)
TurnsUpTo(n) == IF n = 0 THEN 0 ELSE UserTurns(heap[n]) + TurnsUpTo(n - 1)

\* The respondent turns taken so far, over all sessions.
Turns == TurnsUpTo(Len(heap))

\* The CallSids the carrier has given out, and the one it gives its next call.
Assigned ==
  {s \in CallSids : callSessions[s] # 0}
    \cup {placing[i].sid : i \in {j \in 1..Len(placing) : placing[j].sid # 0}}

NextSid == Cardinality(Assigned) + 1

Remove(seq, i) == SubSeq(seq, 1, i - 1) \o SubSeq(seq, i + 1, Len(seq))

\* What the transitions of a session decide: its status and its result.
Seen(session) ==
  [status |-> session.status, appointmentResult |-> session.appointmentResult]

Connected == [status |-> "in-progress", appointmentResult |-> Null]

\* The suspended handlers of session object o after a step that leaves
\* `handlers` of them suspended: a step that changes what they have seen
\* overtakes them all.
Overtaken(o, handlers) ==
  [stale EXCEPT ![o] = IF Seen(heap'[o]) = Seen(heap[o])
                       THEN handlers
                       ELSE [k \in DOMAIN handlers |->
                               [handlers[k] EXCEPT !.overtaken = TRUE]]]

\* Every action is one step of the server; getClaudeResponse called alone is
\* no part of it.
Step ==
  /\ steps < MaxSteps
  /\ steps' = steps + 1
  /\ UNCHANGED <<message, returned>>

Init ==
  /\ BASE_URL \in {"", "https://scheduler.example"}
  /\ callSessions = [s \in CallSids |-> 0]
  /\ heap = <<>>
  /\ placing = <<>>
  /\ gathers = <<>>
  /\ stale = <<>>
  /\ message = <<>>
  /\ returned = Null
  /\ res = NoResponse
  /\ steps = 0

\* ------------------------------------------------- POST /api/call
\* ApiCall without the test of `service`.
ApiCallUnchecked(body, limit) ==
  /\ Step
  /\ IF body.hairdresserPhone = "" \/ body.customerName = ""
     THEN /\ res' = Response("POST /api/call", 0, 400,
                             [error |-> "Missing required fields: hairdresserPhone, customerName, service"])
          /\ UNCHANGED <<BASE_URL, callSessions, heap, placing, gathers, stale>>
     ELSE IF BASE_URL = ""
     THEN /\ res' = Response("POST /api/call", 0, 500,
                             [error |-> "BASE_URL is not configured."])
          /\ UNCHANGED <<BASE_URL, callSessions, heap, placing, gathers, stale>>
     ELSE /\ Len(heap) + Len(placing) < limit
          /\ placing' = Append(placing, [body |-> body, sid |-> 0])
          /\ res' = NoResponse
          /\ UNCHANGED <<BASE_URL, callSessions, heap, gathers, stale>>

\* Up to the await of twilioClient.calls.create.  `limit` caps the calls
\* handed to the carrier.
ApiCall(body, limit) ==
  /\ Step
  /\ IF body.hairdresserPhone = "" \/ body.customerName = "" \/ body.service = ""
     THEN /\ res' = Response("POST /api/call", 0, 400,
                             [error |-> "Missing required fields: hairdresserPhone, customerName, service"])
          /\ UNCHANGED <<BASE_URL, callSessions, heap, placing, gathers, stale>>
     ELSE IF BASE_URL = ""
     THEN /\ res' = Response("POST /api/call", 0, 500,
                             [error |-> "BASE_URL is not configured."])
          /\ UNCHANGED <<BASE_URL, callSessions, heap, placing, gathers, stale>>
     ELSE /\ Len(heap) + Len(placing) < limit
          /\ placing' = Append(placing, [body |-> body, sid |-> 0])
          /\ res' = NoResponse
          /\ UNCHANGED <<BASE_URL, callSessions, heap, gathers, stale>>

\* The carrier accepts the call of request i and assigns its CallSid; its
\* answer to calls.create is on its way.
CarrierAccepts(i) ==
  /\ Step
  /\ placing[i].sid = 0
  /\ NextSid <= MaxCalls
  /\ placing' = [placing EXCEPT ![i].sid = NextSid]
  /\ res' = NoResponse
  /\ UNCHANGED <<BASE_URL, callSessions, heap, gathers, stale>>

\* A carrier that hands out a CallSid it has handed out before.
CarrierAcceptsAgain(i, sid) ==
  /\ Step
  /\ placing[i].sid = 0
  /\ sid \in Assigned
  /\ placing' = [placing EXCEPT ![i].sid = sid]
  /\ res' = NoResponse
  /\ UNCHANGED <<BASE_URL, callSessions, heap, gathers, stale>>

\* calls.create has resolved: the rest of the handler.
ApiCallPlaced(i) ==
  /\ Step
  /\ placing[i].sid # 0
  /\ LET sid == placing[i].sid
     IN /\ heap' = Append(heap, NewSession(sid, placing[i].body))
        /\ gathers' = Append(gathers, 0)
        /\ stale' = Append(stale, <<>>)
        /\ callSessions' = [callSessions EXCEPT ![sid] = Len(heap) + 1]
        /\ res' = Response("POST /api/call", sid, 200,
                           [callSid |-> sid, status |-> "calling"])
  /\ placing' = Remove(placing, i)
  /\ UNCHANGED BASE_URL

\* calls.create has rejected: the catch of the handler.
ApiCallFailed(i) ==
  /\ Step
  /\ placing[i].sid = 0
  /\ placing' = Remove(placing, i)
  /\ res' = Response("POST /api/call", 0, 500, [error |-> "calls.create rejected"])
  /\ UNCHANGED <<BASE_URL, callSessions, heap, gathers, stale>>

\* ------------------------------------------------- GET /api/call/:callSid
ApiCallGet(sid) ==
  /\ Step
  /\ res' = IF Get(sid) = 0
            THEN Response("GET /api/call", sid, 404, [error |-> "Call not found"])
            ELSE LET session == heap[Get(sid)]
                 IN Response("GET /api/call", sid, 200,
                             [callSid |-> session.callSid,
                              status |-> session.status,
                              twilioStatus |-> session.twilioStatus,
                              transcript |-> session.transcript,
                              appointmentResult |-> session.appointmentResult])
  /\ UNCHANGED <<BASE_URL, callSessions, heap, placing, gathers, stale>>

\* ------------------------------------------------- POST /voice/start
StartSession(session) == [session EXCEPT !.status = "in-progress"]

VoiceStart(sid) ==
  /\ Step
  /\ IF Get(sid) = 0
     THEN /\ res' = Twiml("POST /voice/start", sid, ErrorTwiml)
          /\ UNCHANGED <<BASE_URL, callSessions, heap, placing, gathers, stale>>
     ELSE /\ heap' = [heap EXCEPT ![Get(sid)] = StartSession(@)]
          /\ res' = Twiml("POST /voice/start", sid,
                          ListenTwiml(heap[Get(sid)].initialGreeting))
          /\ stale' = Overtaken(Get(sid), stale[Get(sid)])
          /\ UNCHANGED <<BASE_URL, callSessions, placing, gathers>>

\* ------------------------------------------------- POST /voice/gather
\* RecordSpeech with unshift for push: the turn goes to the front of the logs.
RecordSpeechUnshift(session, speechResult) ==
  [session EXCEPT
     !.claudeMessages = <<[role |-> "user", content |-> Text(speechResult)]>> \o @,
     !.transcript = <<[role |-> "user", content |-> Text(speechResult)]>> \o @]

\* Record what the hairdresser said.
RecordSpeech(session, speechResult) ==
  [session EXCEPT
     !.claudeMessages = Push(@, "user", Text(speechResult)),
     !.transcript = Push(@, "user", Text(speechResult))]

\* Up to the await of getClaudeResponse.
VoiceGather(sid, speechResult) ==
  /\ Step
  /\ IF Get(sid) = 0
     THEN /\ res' = Twiml("POST /voice/gather", sid, ErrorTwiml)
          /\ UNCHANGED <<BASE_URL, callSessions, heap, placing, gathers, stale>>
     ELSE /\ Turns < MaxTurns
          /\ heap' = [heap EXCEPT ![Get(sid)] = RecordSpeech(@, speechResult)]
          /\ gathers' = [gathers EXCEPT ![Get(sid)] = @ + 1]
          /\ stale' = [stale EXCEPT ![Get(sid)] =
                          Append(@, [connected |-> Seen(heap[Get(sid)]) = Connected,
                                     overtaken |-> FALSE])]
          /\ res' = NoResponse
          /\ UNCHANGED <<BASE_URL, callSessions, placing>>

\* Record the reply, and the result when the reply is complete.
RecordReply(session, reply) ==
  LET said == [session EXCEPT
                 !.claudeMessages = Push(@, "assistant", reply.response),
                 !.transcript = Push(@, "assistant", reply.response)]
  IN IF reply.isComplete
     THEN [said EXCEPT !.status = "completed",
                       !.appointmentResult = reply.appointmentResult]
     ELSE said

\* getClaudeResponse has resolved: the rest of the try block.
GatherResolved(o, text) ==
  /\ Step
  /\ gathers[o] > 0
  /\ LET reply == GetClaudeResponse(text)
     IN /\ heap' = [heap EXCEPT ![o] = RecordReply(@, reply)]
        /\ res' = Twiml("POST /voice/gather", heap[o].callSid,
                        IF reply.isComplete THEN FinalTwiml(reply.response)
                        ELSE ListenTwiml(reply.response))
  /\ gathers' = [gathers EXCEPT ![o] = @ - 1]
  /\ \E k \in 1..Len(stale[o]) : stale' = Overtaken(o, Remove(stale[o], k))
  /\ UNCHANGED <<BASE_URL, callSessions, placing>>

\* RecordFailure that pushes the apology to claudeMessages as well.
RecordFailureInHistory(session) ==
  [session EXCEPT
     !.status = "failed",
     !.appointmentResult = [confirmed |-> FALSE, reason |-> <<"Technical error during call">>],
     !.claudeMessages = Push(@, "assistant", APOLOGY),
     !.transcript = Push(@, "assistant", APOLOGY)]

RecordFailure(session) ==
  [session EXCEPT
     !.status = "failed",
     !.appointmentResult = [confirmed |-> FALSE, reason |-> <<"Technical error during call">>],
     !.transcript = Push(@, "assistant", APOLOGY)]

\* getClaudeResponse has rejected: the catch block.
GatherRejected(o) ==
  /\ Step
  /\ gathers[o] > 0
  /\ heap' = [heap EXCEPT ![o] = RecordFailure(@)]
  /\ res' = Twiml("POST /voice/gather", heap[o].callSid, ApologyTwiml)
  /\ gathers' = [gathers EXCEPT ![o] = @ - 1]
  /\ \E k \in 1..Len(stale[o]) : stale' = Overtaken(o, Remove(stale[o], k))
  /\ UNCHANGED <<BASE_URL, callSessions, placing>>

\* ------------------------------------------------- POST /voice/no-input
\* NoInput that sets the status and leaves the result as it is.
NoInputNoResult(session) ==
  IF session.status # "completed"
  THEN [session EXCEPT !.status = "no-answer"]
  ELSE session

NoInput(session) ==
  IF session.status # "completed"
  THEN [session EXCEPT
          !.status = "no-answer",
          !.appointmentResult = [confirmed |-> FALSE, reason |-> <<"No response from salon">>]]
  ELSE session

VoiceNoInput(sid) ==
  /\ Step
  /\ res' = Twiml("POST /voice/no-input", sid, NoInputTwiml)
  /\ heap' = IF Get(sid) = 0 THEN heap
             ELSE [heap EXCEPT ![Get(sid)] = NoInput(@)]
  /\ stale' = IF Get(sid) = 0 THEN stale
              ELSE Overtaken(Get(sid), stale[Get(sid)])
  /\ UNCHANGED <<BASE_URL, callSessions, placing, gathers>>

\* ------------------------------------------------- POST /voice/status
\* StatusCallback without the test of session.status against 'completed'.
StatusCallbackUnguarded(session, callStatus) ==
  LET seen == [session EXCEPT !.twilioStatus = callStatus]
  IN IF callStatus \in {"failed", "busy", "no-answer", "canceled"}
     THEN [seen EXCEPT
             !.status = callStatus,
             !.appointmentResult =
                IF @ = Null
                THEN [confirmed |-> FALSE, reason |-> <<"Call ", callStatus>>]
                ELSE @]
     ELSE seen

\* StatusCallback without the test of session.appointmentResult.
StatusCallbackOverwrites(session, callStatus) ==
  LET seen == [session EXCEPT !.twilioStatus = callStatus]
  IN IF callStatus \in {"failed", "busy", "no-answer", "canceled"}
        /\ session.status # "completed"
     THEN [seen EXCEPT
             !.status = callStatus,
             !.appointmentResult = [confirmed |-> FALSE, reason |-> <<"Call ", callStatus>>]]
     ELSE seen

\* StatusCallback that records CallStatus only when it ends the session.
StatusCallbackSilent(session, callStatus) ==
  IF callStatus \in {"failed", "busy", "no-answer", "canceled"}
     /\ session.status # "completed"
  THEN [session EXCEPT
          !.twilioStatus = callStatus,
          !.status = callStatus,
          !.appointmentResult =
             IF @ = Null
             THEN [confirmed |-> FALSE, reason |-> <<"Call ", callStatus>>]
             ELSE @]
  ELSE session

StatusCallback(session, callStatus) ==
  LET seen == [session EXCEPT !.twilioStatus = callStatus]
  IN IF callStatus \in {"failed", "busy", "no-answer", "canceled"}
        /\ session.status # "completed"
     THEN [seen EXCEPT
             !.status = callStatus,
             !.appointmentResult =
                IF @ = Null
                THEN [confirmed |-> FALSE, reason |-> <<"Call ", callStatus>>]
                ELSE @]
     ELSE seen

VoiceStatus(sid, callStatus) ==
  /\ Step
  /\ res' = Response("POST /voice/status", sid, 200, [text |-> "OK"])
  /\ heap' = IF Get(sid) = 0 THEN heap
             ELSE [heap EXCEPT ![Get(sid)] = StatusCallback(@, callStatus)]
  /\ stale' = IF Get(sid) = 0 THEN stale
              ELSE Overtaken(Get(sid), stale[Get(sid)])
  /\ UNCHANGED <<BASE_URL, callSessions, placing, gathers>>

\* ------------------------------------------------- specifications
Requests ==
  \/ \E sid \in CallSids : ApiCallGet(sid)
  \/ \E sid \in CallSids : VoiceStart(sid)
  \/ \E sid \in CallSids, speechResult \in SpeechResults : VoiceGather(sid, speechResult)
  \/ \E o \in Objs, text \in DelegateTexts : GatherResolved(o, text)
  \/ \E o \in Objs : GatherRejected(o)
  \/ \E sid \in CallSids : VoiceNoInput(sid)
  \/ \E sid \in CallSids, callStatus \in CallStatuses : VoiceStatus(sid, callStatus)
  \/ \E i \in 1..Len(placing) : CarrierAccepts(i)
  \/ \E i \in 1..Len(placing) : ApiCallPlaced(i)
  \/ \E i \in 1..Len(placing) : ApiCallFailed(i)

\* The carrier gives every call a CallSid of its own.
Next ==
  \/ \E body \in Bodies : ApiCall(body, MaxCalls)
  \/ Requests

Spec == Init /\ [][Next]_vars

\* The routes that write and read the map, and the two that mark a session,
\* with a carrier that may repeat a CallSid.
NextRegistry ==
  \/ \E body \in Bodies : ApiCall(body, MaxObjs)
  \/ \E i \in 1..Len(placing) : CarrierAccepts(i)
  \/ \E i \in 1..Len(placing), sid \in CallSids : CarrierAcceptsAgain(i, sid)
  \/ \E i \in 1..Len(placing) : ApiCallPlaced(i)
  \/ \E i \in 1..Len(placing) : ApiCallFailed(i)
  \/ \E sid \in CallSids : ApiCallGet(sid)
  \/ \E sid \in CallSids : VoiceStart(sid)
  \/ \E sid \in CallSids : VoiceNoInput(sid)

SpecRegistry == Init /\ [][NextRegistry]_vars

\* getClaudeResponse alone, on every text of up to MaxTextLen chunks: words,
\* white space, markers and payloads in any order.
Chunks == {"All set!"} \cup Whitespace \cup {CONFIRMED_MARKER, FAILED_MARKER} \cup Payloads

MessageTexts == UNION {[1..n -> Chunks] : n \in 0..MaxTextLen}

InitParse ==
  /\ message \in MessageTexts
  /\ returned = Null
  /\ BASE_URL = ""
  /\ callSessions = [s \in CallSids |-> 0]
  /\ heap = <<>>
  /\ placing = <<>>
  /\ gathers = <<>>
  /\ stale = <<>>
  /\ res = NoResponse
  /\ steps = 0

CallGetClaudeResponse ==
  /\ returned = Null
  /\ returned' = GetClaudeResponse(message)
  /\ UNCHANGED <<BASE_URL, callSessions, heap, placing, gathers, stale, message,
                 res, steps>>

NextParse == CallGetClaudeResponse

SpecParse == InitParse /\ [][NextParse]_vars

\* ------------------------------------------------------------ properties
CARRIER_TERMINAL == {"failed", "busy", "no-answer", "canceled"}

IsPrefix(s, t) == Len(s) <= Len(t) /\ SubSeq(t, 1, Len(s)) = s

TechnicalError == [confirmed |-> FALSE, reason |-> <<"Technical error during call">>]
CallEnded(callStatus) == [confirmed |-> FALSE, reason |-> <<"Call ", callStatus>>]

\* C1: once a session's appointmentResult is not null, no step changes it.
C1_OutcomeSetOnce ==
  [][\A o \in Objs :
       heap[o].appointmentResult # Null
         => heap'[o].appointmentResult = heap[o].appointmentResult]_vars

\* C2: a session whose status is terminal never gets a status that is not
\* terminal ('calling', 'in-progress').
C2_NoRegression ==
  [][\A o \in Objs :
       heap[o].status \in TERMINAL_STATUSES
         => heap'[o].status \in TERMINAL_STATUSES]_vars

\* C3: a session whose status is terminal never gets another terminal status.
C3_FirstTerminalWins ==
  [][\A o \in Objs :
       heap[o].status \in TERMINAL_STATUSES /\ heap'[o].status \in TERMINAL_STATUSES
         => heap'[o].status = heap[o].status]_vars

\* C4: on a session that is 'completed', a status callback carrying failed,
\* busy, no-answer or canceled, and a no-input request, keep status and
\* appointmentResult; the status callback sets twilioStatus.
C4_CompletedIsKept ==
  [][\A sid \in CallSids :
       Get(sid) # 0 /\ heap[Get(sid)].status = "completed"
         => LET before == heap[Get(sid)]
                after == heap'[Get(sid)]
            IN /\ \A callStatus \in CARRIER_TERMINAL :
                    VoiceStatus(sid, callStatus)
                      => /\ after.status = "completed"
                         /\ after.appointmentResult = before.appointmentResult
                         /\ after.appointmentResult # Null
                         /\ after.twilioStatus = callStatus
               /\ VoiceNoInput(sid)
                    => /\ after.status = "completed"
                       /\ after.appointmentResult = before.appointmentResult
                       /\ after.appointmentResult # Null]_vars

\* The session was completed by a confirmed reply and a 'failed' status
\* callback came after it.
C4_Witness ==
  \E sid \in CallSids :
    /\ Get(sid) # 0
    /\ res.handler = "POST /voice/status" /\ res.callSid = sid
    /\ heap[Get(sid)].status = "completed"
    /\ heap[Get(sid)].twilioStatus = "failed"
    /\ heap[Get(sid)].appointmentResult # Null
    /\ heap[Get(sid)].appointmentResult.confirmed

\* C5: a status callback carrying s in {failed, busy, no-answer, canceled} for
\* a session whose status is not terminal sets status to s, sets a null
\* appointmentResult to {confirmed: false, reason: 'Call ' + s} and keeps one
\* that is not null.
C5_CarrierTerminal ==
  [][\A sid \in CallSids, callStatus \in CARRIER_TERMINAL :
       /\ Get(sid) # 0
       /\ heap[Get(sid)].status \notin TERMINAL_STATUSES
       /\ VoiceStatus(sid, callStatus)
       => /\ heap'[Get(sid)].status = callStatus
          /\ heap'[Get(sid)].appointmentResult =
               IF heap[Get(sid)].appointmentResult = Null
               THEN CallEnded(callStatus)
               ELSE heap[Get(sid)].appointmentResult]_vars

\* A 'canceled' status callback has ended a session that had no result.
C5_Witness ==
  \E sid \in CallSids :
    /\ Get(sid) # 0
    /\ res.handler = "POST /voice/status" /\ res.callSid = sid
    /\ heap[Get(sid)].status = "canceled"
    /\ heap[Get(sid)].twilioStatus = "canceled"
    /\ heap[Get(sid)].appointmentResult = CallEnded("canceled")

\* C6: a rejected getClaudeResponse is handled on an 'in-progress' session
\* only; it sets status 'failed' and the technical-error result and answers
\* with the apology and a hang-up; no later status callback changes that
\* status or that result.
C6_DelegateFailure ==
  [][/\ \A o \in Objs :
          GatherRejected(o)
            => /\ heap[o].status = "in-progress"
               /\ heap'[o].status = "failed"
               /\ heap'[o].appointmentResult = TechnicalError
               /\ res'.body.twiml = ApologyTwiml
     /\ \A sid \in CallSids, callStatus \in CallStatuses :
          /\ Get(sid) # 0
          /\ heap[Get(sid)].status = "failed"
          /\ heap[Get(sid)].appointmentResult = TechnicalError
          /\ VoiceStatus(sid, callStatus)
          => /\ heap'[Get(sid)].status = "failed"
             /\ heap'[Get(sid)].appointmentResult = TechnicalError]_vars

\* C7: a no-input request for an 'in-progress' session answers with the
\* re-prompt and leaves the session 'in-progress' with a null result: the
\* carrier has not yet listened again.
C7_RepromptFirst ==
  [][\A sid \in CallSids :
       /\ Get(sid) # 0
       /\ heap[Get(sid)].status = "in-progress"
       /\ heap[Get(sid)].appointmentResult = Null
       /\ VoiceNoInput(sid)
       => /\ res'.body.twiml[1] = Gather(REPROMPT)
          /\ heap'[Get(sid)].status = "in-progress"
          /\ heap'[Get(sid)].appointmentResult = Null]_vars

\* C8: a CallSid that has a session keeps that session, and a GET of a
\* CallSid without one answers 404 and adds no entry.
C8_OneSessionPerId ==
  [][/\ \A sid \in CallSids :
          callSessions[sid] # 0 => callSessions'[sid] = callSessions[sid]
     /\ \A sid \in CallSids :
          callSessions[sid] = 0 /\ ApiCallGet(sid)
            => res'.code = 404 /\ callSessions' = callSessions]_vars

\* C9: a carrier callback whose CallSid has no session changes no session and
\* no entry of the map, and the handlers that answer with TwiML answer with
\* the error message and a hang-up.
C9_UnknownSession ==
  [][\A sid \in CallSids :
       callSessions[sid] = 0
         => /\ (\/ VoiceStart(sid)
                \/ VoiceNoInput(sid)
                \/ \E speechResult \in SpeechResults : VoiceGather(sid, speechResult))
                 => /\ res'.body.twiml = ErrorTwiml
                    /\ UNCHANGED <<callSessions, heap, gathers>>
            /\ (\E callStatus \in CallStatuses : VoiceStatus(sid, callStatus))
                 => UNCHANGED <<callSessions, heap, gathers>>]_vars

ResumeWrites(o) ==
  \/ GatherRejected(o)
  \/ \E text \in DelegateTexts :
       GetClaudeResponse(text).isComplete /\ GatherResolved(o, text)

\* C11: a transition of a session is atomic: a handler that resumes from the
\* backend's call and writes the session's status and result is one that no
\* other callback of the session has overtaken: status and result have not
\* changed since it suspended.
C11_AtomicTurn ==
  [][\A o \in Objs :
       ResumeWrites(o)
       => \E k \in 1..Len(stale[o]) :
            /\ ~stale[o][k].overtaken
            /\ stale' = Overtaken(o, Remove(stale[o], k))]_vars


\* C12: a turn of the hairdresser taken up while the call is in progress, whose
\* backend call succeeds: what was said and then the reply go to the end of
\* claudeMessages and of transcript; a complete reply makes the session
\* completed with the reply's result and is spoken before a hang-up; any other
\* reply leaves the session in progress with no result and is spoken inside a
\* gather.
C12_RespondentTurn ==
  [][/\ \A sid \in CallSids, speechResult \in SpeechResults :
          /\ Get(sid) # 0
          /\ Seen(heap[Get(sid)]) = Connected
          /\ VoiceGather(sid, speechResult)
          => /\ heap'[Get(sid)].claudeMessages =
                  Push(heap[Get(sid)].claudeMessages, "user", Text(speechResult))
             /\ heap'[Get(sid)].transcript =
                  Push(heap[Get(sid)].transcript, "user", Text(speechResult))
     /\ \A o \in Objs, text \in DelegateTexts :
          LET reply == GetClaudeResponse(text)
          IN /\ \A k \in DOMAIN stale[o] : stale[o][k].connected
             /\ GatherResolved(o, text)
             => /\ heap'[o].claudeMessages =
                     Push(heap[o].claudeMessages, "assistant", reply.response)
                /\ heap'[o].transcript =
                     Push(heap[o].transcript, "assistant", reply.response)
                /\ IF reply.isComplete
                   THEN /\ heap'[o].status = "completed"
                        /\ heap'[o].appointmentResult = reply.appointmentResult
                        /\ res'.body.twiml = FinalTwiml(reply.response)
                   ELSE /\ Seen(heap'[o]) = Connected
                        /\ res'.body.twiml = ListenTwiml(reply.response)]_vars


\* The roles of `messages` go user, assistant, user, ...
Alternates(messages) ==
  \A i \in 1..Len(messages) :
    messages[i].role = IF i % 2 = 1 THEN "user" ELSE "assistant"

\* C13: the claudeMessages of every session alternate between user and
\* assistant, and begin with user.
C13_Alternates ==
  \A o \in Objs : Alternates(heap[o].claudeMessages)

\* C14: a session whose status is calling or in-progress has no result.
C14_NoOutcomeBeforeEnd ==
  \A o \in Objs :
    heap[o].status \notin TERMINAL_STATUSES => heap[o].appointmentResult = Null


\* The body misses one of the fields POST /api/call requires.
MissingField(body) ==
  body.hairdresserPhone = "" \/ body.customerName = "" \/ body.service = ""

\* C15: a POST /api/call that is refused adds no session and places no call:
\* 400 when a required field is missing and 500 when BASE_URL is not set, both
\* without asking the carrier, and 500 when calls.create rejects; callSessions
\* and the sessions stay as they are.  Only a call the carrier has accepted adds
\* a session, with status calling and no result, and answers 200.
C15_RejectedRequest ==
  [][/\ \A body \in Bodies :
          ApiCall(body, MaxCalls) /\ (MissingField(body) \/ BASE_URL = "")
          => /\ res'.code = IF MissingField(body) THEN 400 ELSE 500
             /\ UNCHANGED <<callSessions, heap, placing>>
     /\ \A i \in 1..Len(placing) :
          ApiCallFailed(i)
          => /\ res'.code = 500
             /\ UNCHANGED <<callSessions, heap>>
     /\ callSessions' # callSessions \/ Len(heap') # Len(heap)
        => \E i \in 1..Len(placing) :
             /\ placing[i].sid # 0
             /\ placing' = Remove(placing, i)
             /\ Len(heap') = Len(heap) + 1
             /\ SubSeq(heap', 1, Len(heap)) = heap
             /\ heap'[Len(heap')].callSid = placing[i].sid
             /\ heap'[Len(heap')].status = "calling"
             /\ heap'[Len(heap')].appointmentResult = Null
             /\ callSessions' = [callSessions EXCEPT ![placing[i].sid] = Len(heap')]
             /\ res' = Response("POST /api/call", placing[i].sid, 200,
                                [callSid |-> placing[i].sid, status |-> "calling"])]_vars

\* A request was refused with 400 while the session of an earlier request
\* is stored.
C15_Witness ==
  /\ res.handler = "POST /api/call"
  /\ res.code = 400
  /\ Len(heap) = 1
  /\ callSessions[heap[1].callSid] = 1


HasMarker(t, marker) == \E i \in 1..Len(t) : t[i] = marker

\* C16: getClaudeResponse returns isComplete exactly when the text holds a
\* marker; the result is confirmed when it holds APPOINTMENT_CONFIRMED: and
\* not confirmed when it holds only APPOINTMENT_FAILED:, with the payload as
\* `raw` when no payload of the text can be parsed; a text without a marker
\* gives no result and is returned whole, trimmed.
C16_TerminalIffMarker ==
  returned # Null
  => LET confirmed == HasMarker(message, CONFIRMED_MARKER)
         failed == HasMarker(message, FAILED_MARKER)
     IN /\ returned.isComplete <=> (confirmed \/ failed)
        /\ returned.isComplete
           => /\ returned.appointmentResult.confirmed = confirmed
              /\ (\A i \in 1..Len(message) :
                    message[i] \in Payloads => message[i] = BadJson)
                 => returned.appointmentResult =
                      [confirmed |-> confirmed, raw |-> <<BadJson>>]
        /\ ~returned.isComplete
           => /\ returned.appointmentResult = Null
              /\ returned.response = Trim(message)

\* C17: what getClaudeResponse returns for speaking with a result holds neither
\* marker, wherever the marker stood in the text.
C17_MarkerStripped ==
  returned # Null /\ returned.isComplete
  => /\ ~HasMarker(returned.response, CONFIRMED_MARKER)
     /\ ~HasMarker(returned.response, FAILED_MARKER)


\* What getClaudeResponse returns in the call model.
DelegateReplies == {GetClaudeResponse(text) : text \in DelegateTexts}

\* `session` with twilioStatus x.
Reported(session, x) == [session EXCEPT !.twilioStatus = x]

\* No update of a session depends on its twilioStatus: with another value in
\* the field every handler makes the same of the session.
TwilioStatusUnread(session) ==
  \A x \in CallStatuses :
    /\ StartSession(Reported(session, x)) = Reported(StartSession(session), x)
    /\ NoInput(Reported(session, x)) = Reported(NoInput(session), x)
    /\ RecordFailure(Reported(session, x)) = Reported(RecordFailure(session), x)
    /\ \A speechResult \in SpeechResults :
         RecordSpeech(Reported(session, x), speechResult)
           = Reported(RecordSpeech(session, speechResult), x)
    /\ \A reply \in DelegateReplies :
         RecordReply(Reported(session, x), reply)
           = Reported(RecordReply(session, reply), x)
    /\ \A callStatus \in CallStatuses :
         StatusCallback(Reported(session, x), callStatus)
           = StatusCallback(session, callStatus)

\* C18: a status callback for a stored session sets its twilioStatus to the
\* CallStatus reported; when that is none of failed, busy, no-answer and
\* canceled nothing else of the session changes; and no handler's update of
\* the session depends on the twilioStatus that was set.
C18_CarrierStatusInformational ==
  [][\A sid \in CallSids, callStatus \in CallStatuses :
       Get(sid) # 0 /\ VoiceStatus(sid, callStatus)
       => /\ heap'[Get(sid)].twilioStatus = callStatus
          /\ callStatus \notin CARRIER_TERMINAL
             => heap'[Get(sid)] = Reported(heap[Get(sid)], callStatus)
          /\ TwilioStatusUnread(heap'[Get(sid)])]_vars

\* The carrier has reported 'completed' for a session in progress, which is
\* in progress still and has no result.
C18_Witness ==
  \E sid \in CallSids :
    /\ Get(sid) # 0
    /\ res.handler = "POST /voice/status" /\ res.callSid = sid
    /\ heap[Get(sid)].twilioStatus = "completed"
    /\ Seen(heap[Get(sid)]) = Connected


\* C19: a status callback with the carrier's last CallStatus of a call
\* (completed, failed, no-answer, busy or canceled) leaves the session with a
\* status of TERMINAL_STATUSES, on which the page stops polling.
C19_FinalStatusCloses ==
  [][\A sid \in CallSids, callStatus \in TERMINAL_STATUSES :
       Get(sid) # 0 /\ VoiceStatus(sid, callStatus)
       => heap'[Get(sid)].status \in TERMINAL_STATUSES]_vars

\* C20: no callback of the carrier (status, start, gather, no-input) for a
\* CallSid the carrier has assigned is handled while callSessions has no
\* session for it.
C20_RegisteredBeforeCallbacks ==
  [][\A sid \in Assigned :
       callSessions[sid] = 0
       => ~(\/ VoiceStart(sid)
            \/ VoiceNoInput(sid)
            \/ \E speechResult \in SpeechResults : VoiceGather(sid, speechResult)
            \/ \E callStatus \in CallStatuses : VoiceStatus(sid, callStatus))]_vars


\* The entries of a transcript.
GreetingEntry(session) == [role |-> "assistant", content |-> session.initialGreeting]
ApologyEntry == [role |-> "assistant", content |-> APOLOGY]

\* `entries` without the apologies.
WithoutApologies(entries) ==
  LET Kept(entry) == entry # ApologyEntry
  IN SelectSeq(entries, Kept)

\* C21: the transcript of every session begins with the greeting, which is no
\* entry of claudeMessages, and claudeMessages is the transcript without the
\* greeting and without the apologies, in the same order.
C21_TranscriptSuperset ==
  \A o \in Objs :
    LET session == heap[o]
    IN /\ session.transcript # <<>>
       /\ Head(session.transcript) = GreetingEntry(session)
       /\ \A i \in 1..Len(session.claudeMessages) :
            session.claudeMessages[i] # GreetingEntry(session)
       /\ session.claudeMessages = WithoutApologies(Tail(session.transcript))

\* Two turns of a session have overlapped; the backend call of one failed and
\* that of the other has answered.
C21_Witness ==
  \E o \in Objs :
    /\ Len(heap[o].transcript) = 5
    /\ heap[o].transcript[2].role = "user"
    /\ heap[o].transcript[3].role = "user"
    /\ heap[o].transcript[4] = ApologyEntry
    /\ heap[o].transcript[5].role = "assistant"
    /\ Len(heap[o].claudeMessages) = 3

\* C22: a session whose status is one of TERMINAL_STATUSES has a result, and
\* so has every GET response that reports such a status.
C22_TerminalHasOutcome ==
  /\ \A o \in Objs :
       heap[o].status \in TERMINAL_STATUSES => heap[o].appointmentResult # Null
  /\ res.handler = "GET /api/call" /\ res.code = 200
     => (res.body.status \in TERMINAL_STATUSES
           => res.body.appointmentResult # Null)

\* A GET has reported a session the no-input handler has ended.
C22_Witness ==
  /\ res.handler = "GET /api/call"
  /\ res.code = 200
  /\ res.body.status = "no-answer"
  /\ res.body.appointmentResult =
       [confirmed |-> FALSE, reason |-> <<"No response from salon">>]

====
